---- MODULE Spec2Model ----
(***************************************************************************)
(* Model of the speech evaluation system:                                  *)
(*   - AudioRecorder (services/stt.py): start_recording, stop_recording,   *)
(*     the capture thread _record_audio and _cleanup_audio, run by the     *)
(*     request threads of the web layer, one statement per step;           *)
(*   - the evaluation pipeline (services/evaluation.py, stt.py, llm.py):   *)
(*     evaluate_single_file with the exceptions each stage raises and the  *)
(*     except clauses that catch them;                                     *)
(*   - normalize_text, _parse_comparison_response and the accuracy level   *)
(*     of _calculate_evaluation_metrics, each applied to its arguments.    *)
(* Spec, FrameSpec and SeqSpec are the recorder, EvalSpec the evaluation   *)
(* pipeline, FnSpec the functions applied on their own.                    *)
(***************************************************************************)
EXTENDS Integers, Sequences, FiniteSets, TLC

VARIABLES
    \* ---- AudioRecorder fields (stt.py 36-40)
    is_recording,   \* self.is_recording
    audio_data,     \* self.audio_data: the list of captured frames
    audio,          \* self.audio: a PyAudio instance, None = 0
    stream,         \* self.stream: an input stream, None = 0
    record_thread,  \* self.record_thread: index into tasks, None = 0
    \* ---- the environment of the recorder
    paOpen,         \* PyAudio instances created and not terminated
    streamsOpen,    \* streams opened and not closed
    tasks,          \* the capture threads ever created: [pc, s]
    files,          \* the wave files written: path p holds files[p]
    \* ---- the request threads
    pc,             \* position of each request thread
    ret,            \* the return of the step just taken: who, which call, value
    loc,            \* locals and call history of each request thread
    ncalls,         \* calls issued so far
    nframes,        \* frames captured so far
    startsWon,      \* start_recording calls that returned True since the last stop
    limit,          \* how many calls and frames this exploration allows, and
                    \* whether a call waits for the call before it to return
    \* ---- evaluate_single_file
    epc,            \* position in the evaluation pipeline
    input,          \* audio path, reference text and what the backends will answer
    result,         \* the EvaluationResult being assembled
    exc,            \* exception in flight, "" = none
    attempts,       \* comparison backend invocations of this call
    outcome,        \* how the call ended: "", "returned" or "raised"
    \* ---- a function applied on its own
    fcall           \* the function, its argument, what it returned

recVars == <<is_recording, audio_data, audio, stream, record_thread, paOpen,
             streamsOpen, tasks, files, pc, ret, loc, ncalls, nframes, startsWon>>
evalVars == <<epc, input, result, exc, attempts, outcome>>
vars == <<recVars, evalVars, limit, fcall>>

\* the fields of the recorder object and the resources it holds
recorderState == <<is_recording, audio_data, audio, stream, record_thread,
                   paOpen, streamsOpen, tasks, files>>

(***************************************************************************)
(* Bounds                                                                  *)
(***************************************************************************)
\* Spec: three calls by two request threads, one frame
MaxCalls == 3
FewFrames == 1
\* FrameSpec: two calls, two frames
FewCalls == 2
MaxFrames == 2

\* SeqSpec: four calls made one after the other, two frames
SeqCalls == 4
SeqFrames == 2
\* FnSpec: the longest text given to normalize_text
MaxLen == 5

Threads == {"t1", "t2"}
None == 0

(***************************************************************************)
(* AudioRecorder                                                           *)
(***************************************************************************)
\* what a step returns to its caller; NoReturn when the step is not a return
NoReturn == [by |-> "", op |-> "", v |-> "", path |-> 0]
RetBool(b) == [v |-> IF b THEN "True" ELSE "False", path |-> 0]
RetNone == [v |-> "None", path |-> 0]
RetPath(p) == [v |-> "path", path |-> p]
RetRaised == [v |-> "raised", path |-> 0]

\* locals of a call: the handle a start creates (every PyAudio instance and
\* stream is a new object), what a stop has seen, its temp_file
LocInit == [handle |-> 0, timedOut |-> FALSE, sawData |-> FALSE, temp_file |-> 0]

RecInit ==
    /\ is_recording = FALSE
    /\ audio_data = <<>>
    /\ audio = None
    /\ stream = None
    /\ record_thread = None
    /\ paOpen = {}
    /\ streamsOpen = {}
    /\ tasks = <<>>
    /\ files = <<>>
    /\ pc = [t \in Threads |-> "idle"]
    /\ ret = NoReturn
    /\ loc = [t \in Threads |-> LocInit]
    /\ ncalls = 0
    /\ nframes = 0
    /\ startsWon = 0

Goto(t, label) == /\ pc' = [pc EXCEPT ![t] = label]
                  /\ ret' = NoReturn
\* the call returns: the thread's locals are gone
Return(t, call, value) ==
    /\ pc' = [pc EXCEPT ![t] = "idle"]
    /\ ret' = [by |-> t, op |-> call, v |-> value.v, path |-> value.path]
    /\ loc' = [loc EXCEPT ![t] = LocInit]

TaskAlive(k) == tasks[k].pc \in {"test", "call", "read"}

\* _cleanup_audio (stt.py 138-149), run to its end in one step.  released is
\* FALSE when stop_stream()/close() raises IOError: the except clause swallows
\* it and the assignments after the raising call are skipped.
CleanupAudio(released) ==
    IF stream # None /\ ~released
    THEN UNCHANGED <<stream, audio, streamsOpen, paOpen>>
    ELSE /\ stream' = None
         /\ streamsOpen' = streamsOpen \ {stream}
         /\ audio' = None
         /\ paOpen' = paOpen \ {audio}

\* a request enters the recorder at any time, or, where the calls are made
\* in sequence, when no other call is running
MayEnter == limit.serial => \A u \in Threads : pc[u] = "idle"

\* ---- start_recording (stt.py 44-76)

\* the guard of line 46 left out
AlreadyRecordingMut == FALSE

\* line 46: if self.is_recording
AlreadyRecording == is_recording

StartCall(t) ==
    /\ pc[t] = "idle"
    /\ UNCHANGED <<evalVars, limit, fcall>>
    /\ ncalls < limit.calls
    /\ MayEnter
    /\ ncalls' = ncalls + 1
    /\ IF AlreadyRecording
       THEN Return(t, "start", RetBool(FALSE))
       ELSE /\ Goto(t, "st_pyaudio")
            /\ loc' = [loc EXCEPT ![t].handle = ncalls + 1]
    /\ UNCHANGED <<recorderState, nframes, startsWon>>

\* lines 51-53: self.audio = pyaudio.PyAudio(); no device raises RuntimeError
StPyAudio(t) ==
    /\ pc[t] = "st_pyaudio"
    /\ UNCHANGED <<evalVars, limit, fcall>>
    /\ audio' = loc[t].handle
    /\ paOpen' = paOpen \cup {loc[t].handle}
    /\ \E devices \in BOOLEAN :
          Goto(t, IF devices THEN "st_open" ELSE "st_except")
    /\ UNCHANGED <<is_recording, audio_data, stream, record_thread, streamsOpen,
                   tasks, files, loc, ncalls, nframes, startsWon>>

\* lines 55-61: self.stream = self.audio.open(...); may raise IOError.
\* self.audio is None when a concurrent _cleanup_audio has run: the
\* AttributeError is not caught by except (RuntimeError, IOError).
StOpen(t) ==
    /\ pc[t] = "st_open"
    /\ UNCHANGED <<evalVars, limit, fcall>>
    /\ IF audio = None
       THEN /\ Return(t, "start", RetRaised)
            /\ UNCHANGED <<stream, streamsOpen>>
       ELSE \E opened \in BOOLEAN :
              IF opened
              THEN /\ stream' = loc[t].handle
                   /\ streamsOpen' = streamsOpen \cup {loc[t].handle}
                   /\ Goto(t, "st_clear")
                   /\ UNCHANGED loc
              ELSE /\ Goto(t, "st_except")
                   /\ UNCHANGED <<stream, streamsOpen, loc>>
    /\ UNCHANGED <<is_recording, audio_data, audio, record_thread, paOpen,
                   tasks, files, ncalls, nframes, startsWon>>

\* line 63: self.audio_data = []
StClear(t) ==
    /\ pc[t] = "st_clear"
    /\ UNCHANGED <<evalVars, limit, fcall>>
    /\ audio_data' = <<>>
    /\ Goto(t, "st_flag")
    /\ UNCHANGED <<is_recording, audio, stream, record_thread, paOpen, streamsOpen,
                   tasks, files, loc, ncalls, nframes, startsWon>>

\* line 64: self.is_recording = True
StFlag(t) ==
    /\ pc[t] = "st_flag"
    /\ UNCHANGED <<evalVars, limit, fcall>>
    /\ is_recording' = TRUE
    /\ Goto(t, "st_thread")
    /\ UNCHANGED <<audio_data, audio, stream, record_thread, paOpen, streamsOpen,
                   tasks, files, loc, ncalls, nframes, startsWon>>

\* lines 66-71: the Thread object is assigned, then started; start() raises
\* RuntimeError when no thread can be launched.
StThread(t) ==
    /\ pc[t] = "st_thread"
    /\ UNCHANGED <<evalVars, limit, fcall>>
    /\ record_thread' = Len(tasks) + 1
    /\ \E launched \in BOOLEAN :
          IF launched
          THEN /\ tasks' = Append(tasks, [pc |-> "test", s |-> None])
               /\ Return(t, "start", RetBool(TRUE))
               /\ startsWon' = startsWon + 1
          ELSE /\ tasks' = Append(tasks, [pc |-> "unstarted", s |-> None])
               /\ Goto(t, "st_except")
               /\ UNCHANGED <<loc, startsWon>>
    /\ UNCHANGED <<is_recording, audio_data, audio, stream, paOpen, streamsOpen,
                   files, ncalls, nframes>>

\* lines 73-76: except (RuntimeError, IOError): _cleanup_audio(); return False
StExcept(t) ==
    /\ pc[t] = "st_except"
    /\ UNCHANGED <<evalVars, limit, fcall>>
    /\ \E released \in BOOLEAN : CleanupAudio(released)
    /\ Return(t, "start", RetBool(FALSE))
    /\ UNCHANGED <<is_recording, audio_data, record_thread, tasks, files,
                   ncalls, nframes, startsWon>>

\* ---- stop_recording (stt.py 78-103)

\* line 80: if not self.is_recording
StopCall(t) ==
    /\ pc[t] = "idle"
    /\ UNCHANGED <<evalVars, limit, fcall>>
    /\ ncalls < limit.calls
    /\ MayEnter
    /\ ncalls' = ncalls + 1
    /\ IF ~is_recording
       THEN Return(t, "stop", RetNone)
       ELSE Goto(t, "sp_flag") /\ UNCHANGED loc
    /\ UNCHANGED <<recorderState, nframes, startsWon>>

\* line 85: self.is_recording = False
SpFlag(t) ==
    /\ pc[t] = "sp_flag"
    /\ UNCHANGED <<evalVars, limit, fcall>>
    /\ is_recording' = FALSE
    /\ startsWon' = 0
    /\ Goto(t, "sp_join")
    /\ UNCHANGED <<audio_data, audio, stream, record_thread, paOpen, streamsOpen,
                   tasks, files, loc, ncalls, nframes>>

\* lines 86-87: join(timeout=2.0) returns when the thread has ended or when
\* the timeout expires with the thread still alive.
JoinWait(t) ==
    /\ pc[t] = "sp_join"
    /\ UNCHANGED <<evalVars, limit, fcall>>
    /\ loc' = [loc EXCEPT ![t].timedOut =
                   record_thread # None /\ TaskAlive(record_thread)]
    /\ Goto(t, "sp_check")

SpJoin(t) ==
    /\ JoinWait(t)
    /\ UNCHANGED <<recorderState, ncalls, nframes, startsWon>>

\* line 89: if not self.audio_data
SpCheck(t) ==
    /\ pc[t] = "sp_check"
    /\ UNCHANGED <<evalVars, limit, fcall>>
    /\ loc' = [loc EXCEPT ![t].sawData = (audio_data # <<>>)]
    /\ Goto(t, IF audio_data = <<>> THEN "sp_empty" ELSE "sp_save")
    /\ UNCHANGED <<recorderState, ncalls, nframes, startsWon>>

\* lines 90-92: _cleanup_audio(); return None
SpEmpty(t) ==
    /\ pc[t] = "sp_empty"
    /\ UNCHANGED <<evalVars, limit, fcall>>
    /\ \E released \in BOOLEAN : CleanupAudio(released)
    /\ Return(t, "stop", RetNone)
    /\ UNCHANGED <<is_recording, audio_data, record_thread, tasks, files,
                   ncalls, nframes, startsWon>>

\* the frames joined with the first two exchanged
WaveFramesMut ==
    IF Len(audio_data) < 2 THEN audio_data
    ELSE <<audio_data[2], audio_data[1]>> \o SubSeq(audio_data, 3, Len(audio_data))

\* line 131: wf.writeframes(b"".join(self.audio_data))
WaveFrames == audio_data

\* line 94, _save_audio_to_file (120-136): a fresh temporary path holding the
\* joined frames; IOError / wave.Error unlinks the file and raises RuntimeError
SpSave(t) ==
    /\ pc[t] = "sp_save"
    /\ UNCHANGED <<evalVars, limit, fcall>>
    /\ \E encoded \in BOOLEAN :
          IF encoded
          THEN /\ files' = Append(files, WaveFrames)
               /\ loc' = [loc EXCEPT ![t].temp_file = Len(files) + 1]
               /\ Goto(t, "sp_cleanup")
          ELSE /\ Goto(t, "sp_except")
               /\ UNCHANGED <<files, loc>>
    /\ UNCHANGED <<is_recording, audio_data, audio, stream, record_thread, paOpen,
                   streamsOpen, tasks, ncalls, nframes, startsWon>>

\* lines 97-98: _cleanup_audio(); return temp_file
SpCleanup(t) ==
    /\ pc[t] = "sp_cleanup"
    /\ UNCHANGED <<evalVars, limit, fcall>>
    /\ \E released \in BOOLEAN : CleanupAudio(released)
    /\ Return(t, "stop", RetPath(loc[t].temp_file))
    /\ UNCHANGED <<is_recording, audio_data, record_thread, tasks, files,
                   ncalls, nframes, startsWon>>

\* lines 100-103: except (RuntimeError, IOError, InterruptedError):
\* _cleanup_audio(); return None
SpExcept(t) ==
    /\ pc[t] = "sp_except"
    /\ UNCHANGED <<evalVars, limit, fcall>>
    /\ \E released \in BOOLEAN : CleanupAudio(released)
    /\ Return(t, "stop", RetNone)
    /\ UNCHANGED <<is_recording, audio_data, record_thread, tasks, files,
                   ncalls, nframes, startsWon>>

\* ---- _record_audio (stt.py 105-118), the capture thread

\* line 108: while self.is_recording and self.stream
TaskTest(k) ==
    /\ tasks[k].pc = "test"
    /\ UNCHANGED <<evalVars, limit, fcall>>
    /\ tasks' = [tasks EXCEPT ![k].pc =
                     IF is_recording /\ stream # None THEN "call" ELSE "done"]
    /\ UNCHANGED <<is_recording, audio_data, audio, stream, record_thread, paOpen,
                   streamsOpen, files, pc, loc, ncalls, nframes, startsWon>>
    /\ ret' = NoReturn

\* line 110: self.stream.read is looked up and called; on None the
\* AttributeError ends the thread (except Exception, line 117)
TaskCall(k) ==
    /\ tasks[k].pc = "call"
    /\ UNCHANGED <<evalVars, limit, fcall>>
    /\ tasks' = [tasks EXCEPT ![k] =
                     IF stream = None THEN [pc |-> "done", s |-> None]
                     ELSE [pc |-> "read", s |-> stream]]
    /\ UNCHANGED <<is_recording, audio_data, audio, stream, record_thread, paOpen,
                   streamsOpen, files, pc, loc, ncalls, nframes, startsWon>>
    /\ ret' = NoReturn

\* lines 110-114: the blocking read returns a frame, which is appended to
\* self.audio_data, or raises IOError, which ends the thread
TaskRead(k) ==
    /\ tasks[k].pc = "read"
    /\ UNCHANGED <<evalVars, limit, fcall>>
    /\ \E got \in BOOLEAN :
          IF got
          THEN /\ nframes < limit.frames
               /\ nframes' = nframes + 1
               /\ audio_data' = Append(audio_data, [by |-> k, n |-> nframes + 1])
               /\ tasks' = [tasks EXCEPT ![k] = [pc |-> "test", s |-> None]]
          ELSE /\ tasks' = [tasks EXCEPT ![k] = [pc |-> "done", s |-> None]]
               /\ UNCHANGED <<audio_data, nframes>>
    /\ UNCHANGED <<is_recording, audio, stream, record_thread, paOpen,
                   streamsOpen, files, pc, loc, ncalls, startsWon>>
    /\ ret' = NoReturn

\* the steps of whichever capture thread runs
CaptureTest == \E k \in 1..Len(tasks) : TaskTest(k)
CaptureCall == \E k \in 1..Len(tasks) : TaskCall(k)
CaptureRead == \E k \in 1..Len(tasks) : TaskRead(k)

(***************************************************************************)
(* evaluate_single_file and the services it calls                          *)
(***************************************************************************)

\* ---- exceptions: a class and the message str(e) gives
NoExc == [cls |-> "", msg |-> "", at |-> ""]
Raise(cls, msg, at) == [cls |-> cls, msg |-> msg, at |-> at]

\* the Python classes an except clause naming cls catches
Superclasses(cls) ==
    CASE cls = "FileNotFoundError" -> {"FileNotFoundError", "IOError"}
      [] cls = "JSONDecodeError" -> {"JSONDecodeError", "ValueError"}
      [] OTHER -> {cls}
Catches(clause, e) == Superclasses(e.cls) \cap clause # {}

\* ---- texts: sequences of characters; str.strip()
IsSpace(c) == c = " "
RECURSIVE LStrip(_)
LStrip(txt) == IF txt # <<>> /\ IsSpace(Head(txt)) THEN LStrip(Tail(txt)) ELSE txt
RECURSIVE RStrip(_)
RStrip(txt) ==
    IF txt # <<>> /\ IsSpace(txt[Len(txt)])
    THEN RStrip(SubSeq(txt, 1, Len(txt) - 1)) ELSE txt
Strip(txt) == RStrip(LStrip(txt))

\* ---- TextProcessor.normalize_text (llm.py 21-43)
\* re.sub(r"\s+", " ", text): every run of whitespace becomes one space
RECURSIVE CollapseWhitespace(_)
CollapseWhitespace(txt) ==
    IF txt = <<>> THEN <<>>
    ELSE IF IsSpace(Head(txt))
    THEN <<" ">> \o CollapseWhitespace(LStrip(txt))
    ELSE <<Head(txt)>> \o CollapseWhitespace(Tail(txt))
\* lines 32-35: the full-width marks become ASCII ones; "FW." is the
\* full-width full stop
ReplaceFullWidth(txt) ==
    [i \in 1..Len(txt) |-> IF txt[i] = "FW." THEN "." ELSE txt[i]]
\* line 38: re.sub(r"[.,!?;:()\"'-]", "", text)
IsPunctuation(c) == c \in {".", ",", "!", "?", ";", ":", "(", ")", "\"", "'", "-"}
RemovePunctuation(txt) == SelectSeq(txt, LAMBDA c : ~IsPunctuation(c))
\* line 41: text.lower()
Lower(txt) == [i \in 1..Len(txt) |-> IF txt[i] = "A" THEN "a" ELSE txt[i]]
NormalizeText(text, flags) ==
    IF text = <<>> THEN <<>>
    ELSE LET stripped == Strip(text)
             spaced == IF flags.text_normalization
                       THEN ReplaceFullWidth(CollapseWhitespace(stripped))
                       ELSE stripped
             bare == IF flags.punctuation_ignore
                     THEN RemovePunctuation(spaced) ELSE spaced
             folded == IF ~flags.case_sensitive THEN Lower(bare) ELSE bare
         IN Strip(folded)

Texts == {<<>>, <<" ">>, <<"a">>, <<" ", "a", "b", " ">>}
NoneText == <<"None">>

\* ---- the audio file given to evaluate: a path, whether it exists, its size
MinSize == 1024
MaxSize == 25 * 1024 * 1024

\* a file of exactly the least size rejected too
TooSmallMut(size) == size <= MinSize

\* stt.py 200: if file_size < 1024
TooSmall(size) == size < MinSize
\* stt.py 196: if file_size > max_size
TooLarge(size) == size > MaxSize
AudioFiles ==
    {[given |-> FALSE, exists |-> FALSE, size |-> 0]}
    \cup {[given |-> TRUE, exists |-> FALSE, size |-> 0]}
    \cup {[given |-> TRUE, exists |-> TRUE, size |-> n] :
             n \in {0, MinSize - 1, MinSize, MaxSize, MaxSize + 1}}

\* ---- what the speech-to-text backend answers when it is invoked
SttAnswers ==
    {[kind |-> "text", text |-> x, msg |-> ""] : x \in Texts}
    \cup {[kind |-> "api_error", text |-> <<>>, msg |-> "api"]}
    \cup {[kind |-> "io_error", text |-> <<>>, msg |-> m] :
             m \in {"Unrecognized file format", "file too large", "io"}}
NoAnswer == [kind |-> "none", text |-> <<>>, msg |-> ""]

\* _handle_transcription_error (stt.py 235-246)
HandleTranscriptionError(msg) ==
    IF msg = "Unrecognized file format" THEN Raise("ValueError", "format", "stt")
    ELSE IF msg = "file too large" THEN Raise("ValueError", "too large", "stt")
    ELSE Raise("RuntimeError", "file processing failed: " \o msg, "stt")

\* OpenAISTTClient.transcribe_audio (stt.py 181-233): the transcript and its
\* confidence, or the exception that leaves the method
ClientTranscribe(file, answer) ==
    IF ~file.given THEN [e |-> Raise("ValueError", "empty path", "stt")]
    ELSE IF ~file.exists THEN [e |-> Raise("FileNotFoundError", "no such file", "stt")]
    ELSE IF TooLarge(file.size)
         THEN [e |-> Raise("ValueError", "file too large", "stt")]
    ELSE IF TooSmall(file.size)
         THEN [e |-> Raise("ValueError", "file too small", "stt")]
    ELSE IF answer.kind = "api_error"
         THEN [e |-> Raise("RuntimeError", "OpenAI service error", "stt")]
    ELSE IF answer.kind = "io_error" THEN [e |-> HandleTranscriptionError(answer.msg)]
    ELSE IF Strip(answer.text) = <<>>
         THEN [e |-> HandleTranscriptionError("no speech recognized")]
    ELSE [e |-> NoExc, transcript |-> Strip(answer.text), confidence |-> 1]

\* the backend is invoked only for a file that passes the checks of 188-201
BackendInvoked(file) ==
    file.given /\ file.exists /\ ~TooLarge(file.size) /\ ~TooSmall(file.size)

\* the except clause of STTService.transcribe_audio (stt.py 269)
SttServiceCatches == {"RuntimeError", "ValueError"}

\* STTService.transcribe_audio (stt.py 263-271)
TranscribeAudio(file, answer) ==
    IF ~file.given THEN [e |-> Raise("ValueError", "empty path", "stt")]
    ELSE LET r == ClientTranscribe(file, answer) IN
         IF r.e # NoExc /\ Catches(SttServiceCatches, r.e)
         THEN [e |-> Raise("RuntimeError", "speech recognition failed: " \o r.e.msg,
                           "stt")]
         ELSE r

\* ---- what the comparison backend answers: a score field of the payload
ScoreNumbers == {0 - 10, 0, 85, 100, 150}
ScoreFields ==
    {[t |-> "num", n |-> n] : n \in ScoreNumbers}
    \cup {[t |-> k, n |-> 0] : k \in {"missing", "text", "null", "nan"}}
\* a field of the payload other than a score: absent, or null, or a value
Missing(v) == [t |-> "missing", v |-> v]
Null(v) == [t |-> "null", v |-> v]
Val(v) == [t |-> "val", v |-> v]
\* a count inside error_analysis: absent, an integer, or a number like 1.5
CountFields ==
    {[t |-> "missing", n |-> 0], [t |-> "num", n |-> 0 - 1],
     [t |-> "num", n |-> 2], [t |-> "frac", n |-> 1]}
\* the mappings an error_analysis may be: whole, or lacking counts, or with a
\* negative or fractional count
ErrorCounts ==
    {[substitutions |-> a, deletions |-> [t |-> "num", n |-> 2],
      insertions |-> b, total_errors |-> c] :
        a \in CountFields,
        b \in {[t |-> "missing", n |-> 0], [t |-> "num", n |-> 2]},
        c \in CountFields}
NoCounts == [substitutions |-> [t |-> "missing", n |-> 0],
             deletions |-> [t |-> "missing", n |-> 0],
             insertions |-> [t |-> "missing", n |-> 0],
             total_errors |-> [t |-> "missing", n |-> 0]]
\* error_analysis of the payload: absent, a text instead of a mapping, or a
\* mapping with some of the four counts
ErrorAnalyses ==
    {[t |-> "missing", m |-> NoCounts], [t |-> "text", m |-> NoCounts]}
    \cup {[t |-> "map", m |-> m] : m \in ErrorCounts}

\* a response text: no JSON, a JSON array, or a JSON object with these fields
Payload(shape, a, b, su, ea, kd, sg, re) ==
    [shape |-> shape, acc |-> a, sem |-> b, summary |-> su,
     error_analysis |-> ea, key_differences |-> kd, suggestions |-> sg,
     reasoning |-> re]
Bare(shape, a, b) ==
    Payload(shape, a, b, Missing(""), [t |-> "missing", m |-> NoCounts],
            Missing(<<>>), Missing(<<>>), Missing(""))
NoScore == [t |-> "missing", n |-> 0]

\* the responses of the comparison backend met by evaluate_single_file
LlmResponses ==
    {Bare("garbage", NoScore, NoScore), Bare("array", NoScore, NoScore)}
    \cup {Bare("object", a, b) : a \in ScoreFields, b \in ScoreFields}
NoResponse == Bare("none", NoScore, NoScore)

\* the responses given to _parse_comparison_response on its own
ParsePayloads ==
    {Bare("garbage", NoScore, NoScore), Bare("array", NoScore, NoScore)}
    \cup {Payload("object", a, b, su, ea, kd, sg, re) :
             a \in ScoreFields,
             b \in {NoScore, [t |-> "num", n |-> 85]},
             su \in {Missing(""), Val("s")},
             ea \in ErrorAnalyses,
             kd \in {Missing(<<>>), Null(<<>>), Val(<<"d">>)},
             sg \in {Missing(<<>>), Val(<<"g">>)},
             re \in {Missing(""), Val("r")}}

Min(a, b) == IF b < a THEN b ELSE a
Max(a, b) == IF b > a THEN b ELSE a

\* the score stored without the range check
ClampScoreMut(n) == n

\* the score stored with the upper limit only
ClampScoreCeilingOnly(n) == Min(100, n)

\* llm.py 228-233: max(0, min(100, float(x)))
ClampScore(n) == Max(0, Min(100, n))

\* float(x) then the clamp, for one score field (llm.py 223, 228-233):
\* a missing field is backfilled with 0.0, a text that is no number raises
\* ValueError, null raises TypeError, NaN compares false and min() keeps 100
StoredScore(f) ==
    CASE f.t = "num" -> [e |-> NoExc, n |-> ClampScore(f.n)]
      [] f.t = "missing" -> [e |-> NoExc, n |-> ClampScore(0)]
      [] f.t = "nan" -> [e |-> NoExc, n |-> Max(0, 100)]
      [] f.t = "text" -> [e |-> Raise("ValueError", "could not convert", "compare"), n |-> 0]
      [] f.t = "null" -> [e |-> Raise("TypeError", "float() argument", "compare"), n |-> 0]

\* the defaults of required_fields (llm.py 208-221)
DefaultCounts == [substitutions |-> [t |-> "num", n |-> 0],
                  deletions |-> [t |-> "num", n |-> 0],
                  insertions |-> [t |-> "num", n |-> 0],
                  total_errors |-> [t |-> "num", n |-> 0]]
DefaultErrorAnalysis == [t |-> "map", m |-> DefaultCounts]

\* a field that is there is kept as it is
SetDefaultMut(field, default) == default

\* result.setdefault(field, default) (llm.py 222-223)
SetDefault(field, default) == IF field.t = "missing" THEN default ELSE field

\* llm.py 224-225: an error_analysis that is no dict is replaced
RepairErrorAnalysis(ea) == IF ea.t # "map" THEN DefaultErrorAnalysis ELSE ea

\* an except clause that leaves JSONDecodeError out
ParseCatchesMut == {"TypeError"}

\* the except clause of _parse_comparison_response (llm.py 236)
ParseCatches == {"JSONDecodeError", "TypeError"}

\* _parse_comparison_response (llm.py 194-238)
ParseComparisonResponse(r) ==
    LET raw ==
          IF r.shape = "garbage"
          THEN [e |-> Raise("JSONDecodeError", "expecting value", "compare")]
          ELSE IF r.shape = "array"
          THEN [e |-> Raise("AttributeError", "no attribute setdefault", "compare")]
          ELSE LET a == StoredScore(r.acc)
                   b == StoredScore(r.sem)
               IN IF a.e # NoExc THEN [e |-> a.e]
                  ELSE IF b.e # NoExc THEN [e |-> b.e]
                  ELSE [e |-> NoExc,
                        report |->
                           [accuracy_score |-> a.n,
                            semantic_similarity |-> b.n,
                            summary |-> SetDefault(r.summary, Val("analysis complete")),
                            error_analysis |->
                               RepairErrorAnalysis(
                                  SetDefault(r.error_analysis, DefaultErrorAnalysis)),
                            key_differences |-> SetDefault(r.key_differences, Val(<<>>)),
                            suggestions |-> SetDefault(r.suggestions, Val(<<>>)),
                            reasoning |-> SetDefault(r.reasoning, Val(""))]]
    IN IF raw.e # NoExc /\ Catches(ParseCatches, raw.e)
       THEN [e |-> Raise("RuntimeError", "cannot parse the response", "compare")]
       ELSE raw

\* the except clause of LLMService.compare_text_accuracy (llm.py 87)
CompareCatches == {"APIError", "RuntimeError", "ValueError"}

\* what leaves the try block of compare_text_accuracy (llm.py 73-89)
CompareWrap(r) ==
    IF r.e # NoExc /\ Catches(CompareCatches, r.e)
    THEN [e |-> Raise("RuntimeError", "AI analysis error: " \o r.e.msg, "compare")]
    ELSE r

\* retries after the first attempt (llm.py 187: retry_count < 2)
MaxRetries == 2

\* one retry more than the limit
MayRetryMut(retry_count) == retry_count <= MaxRetries

\* llm.py 187: if retry_count < 2
MayRetry(retry_count) == retry_count < MaxRetries

\* ---- the result record (evaluation.py 23-34)
NoDict == [empty |-> TRUE]
ResultInit == [transcription |-> NoDict, comparison |-> NoDict,
               evaluation_metrics |-> NoDict, success |-> FALSE,
               error_message |-> ""]

\* config.py 67-68 and get_evaluation_thresholds (139-146)
HighAccuracyThreshold == 90
MinSimilarityThreshold == 60
EvaluationConfig == [high_accuracy_threshold |-> HighAccuracyThreshold,
                     min_similarity_threshold |-> MinSimilarityThreshold]
GetEvaluationThresholds(cfg) ==
    [excellent |-> cfg.high_accuracy_threshold,
     good |-> Max(75, cfg.min_similarity_threshold),
     fair |-> cfg.min_similarity_threshold]
Thresholds == GetEvaluationThresholds(EvaluationConfig)

\* the boundaries taken as exclusive
AccuracyLevelStrict(score, thresholds) ==
    IF score > thresholds.excellent THEN "excellent"
    ELSE IF score > thresholds.good THEN "good"
    ELSE IF score > thresholds.fair THEN "fair"
    ELSE "needs improvement"

\* the labels of the two middle levels exchanged
AccuracyLevelSwapped(score, thresholds) ==
    IF score >= thresholds.excellent THEN "excellent"
    ELSE IF score >= thresholds.good THEN "fair"
    ELSE IF score >= thresholds.fair THEN "good"
    ELSE "needs improvement"

\* evaluation.py 157-165: the level of a score
AccuracyLevel(score, thresholds) ==
    IF score >= thresholds.excellent THEN "excellent"
    ELSE IF score >= thresholds.good THEN "good"
    ELSE IF score >= thresholds.fair THEN "fair"
    ELSE "needs improvement"

\* _calculate_evaluation_metrics (evaluation.py 150-173)
CalculateEvaluationMetrics(comparison, confidence) ==
    [accuracy_score |-> comparison.accuracy_score,
     semantic_similarity |-> comparison.semantic_similarity,
     accuracy_level |-> AccuracyLevel(comparison.accuracy_score, Thresholds),
     confidence |-> confidence,
     processing_status |-> "completed"]

\* the except clause of evaluate_single_file that catches nothing but ValueError
EvaluateCatchesMut == {"ValueError"}

\* the except clause of evaluate_single_file (evaluation.py 103)
EvaluateCatches == {"RuntimeError", "ValueError"}

EvalIdle ==
    /\ epc = "off"
    /\ input = [file |-> [given |-> FALSE, exists |-> FALSE, size |-> 0],
                reference_text |-> <<>>, stt |-> NoAnswer, llm |-> NoResponse]
    /\ result = ResultInit
    /\ exc = NoExc
    /\ attempts = 0
    /\ outcome = ""

\* a call evaluate_single_file(audio_file_path, reference_text): lines 64-71
EvalInit ==
    /\ epc = "transcribe"
    /\ \E f \in AudioFiles, ref \in Texts :
          input = [file |-> f, reference_text |-> ref, stt |-> NoAnswer,
                   llm |-> NoResponse]
    /\ result = ResultInit
    /\ exc = NoExc
    /\ attempts = 0
    /\ outcome = ""

\* an exception raised inside the try block of evaluate_single_file: the
\* except clause when it catches it, else the finally block on the way out
Thrown(e) ==
    /\ exc' = e
    /\ epc' = IF Catches(EvaluateCatches, e) THEN "except" ELSE "finally"

\* line 73 and lines 75-82: transcribe_audio, then the transcription record
EvTranscribe ==
    /\ epc = "transcribe"
    /\ UNCHANGED <<recVars, limit, fcall>>
    /\ \E answer \in SttAnswers :
          LET r == TranscribeAudio(input.file, answer) IN
          /\ input' = [input EXCEPT !.stt =
                          IF BackendInvoked(input.file) THEN answer ELSE NoAnswer]
          /\ IF r.e # NoExc
             THEN Thrown(r.e) /\ UNCHANGED result
             ELSE /\ result' = [result EXCEPT !.transcription =
                                   [transcript |-> r.transcript,
                                    confidence |-> r.confidence,
                                    success |-> TRUE, error |-> ""]]
                  /\ epc' = "compare"
                  /\ UNCHANGED exc
    /\ UNCHANGED <<attempts, outcome>>

\* line 89, compare_text_accuracy (llm.py 68-71): the checks made before the
\* try block raise ValueError to the caller
EvCompare ==
    /\ epc = "compare"
    /\ UNCHANGED <<recVars, limit, fcall>>
    /\ IF Strip(result.transcription.transcript) = <<>>
       THEN Thrown(Raise("ValueError", "empty transcript", "compare"))
       ELSE IF Strip(input.reference_text) = <<>>
       THEN Thrown(Raise("ValueError", "empty reference text", "compare"))
       ELSE epc' = "api" /\ UNCHANGED exc
    /\ UNCHANGED <<input, result, attempts, outcome>>

\* _call_openai_api (llm.py 169-192): one invocation of the backend; an
\* APIError is retried while retry_count < 2, then raised as RuntimeError,
\* which compare_text_accuracy wraps
EvCallApi ==
    /\ epc = "api"
    /\ UNCHANGED <<recVars, limit, fcall>>
    /\ attempts' = attempts + 1
    /\ \/ /\ MayRetry(attempts)
          /\ UNCHANGED <<epc, exc, input>>
       \/ /\ ~MayRetry(attempts)
          /\ Thrown(CompareWrap([e |-> Raise("RuntimeError", "API call failed",
                                             "compare")]).e)
          /\ UNCHANGED input
       \/ \E r \in LlmResponses :
             /\ input' = [input EXCEPT !.llm = r]
             /\ epc' = "parse"
             /\ UNCHANGED exc
    /\ UNCHANGED <<result, outcome>>

\* llm.py 79-85 and evaluation.py 89-91: the response is parsed, the report
\* gets success = True and becomes result.comparison
EvParse ==
    /\ epc = "parse"
    /\ UNCHANGED <<recVars, limit, fcall>>
    /\ LET r == CompareWrap(ParseComparisonResponse(input.llm)) IN
       IF r.e # NoExc
       THEN Thrown(r.e) /\ UNCHANGED result
       ELSE /\ result' = [result EXCEPT !.comparison =
                             [accuracy_score |-> r.report.accuracy_score,
                              semantic_similarity |-> r.report.semantic_similarity,
                              summary |-> r.report.summary,
                              error_analysis |-> r.report.error_analysis,
                              key_differences |-> r.report.key_differences,
                              suggestions |-> r.report.suggestions,
                              reasoning |-> r.report.reasoning,
                              success |-> TRUE]]
            /\ epc' = "metrics"
            /\ UNCHANGED exc
    /\ UNCHANGED <<input, attempts, outcome>>

\* lines 97-101
EvMetrics ==
    /\ epc = "metrics"
    /\ UNCHANGED <<recVars, limit, fcall>>
    /\ result' = [result EXCEPT
                     !.evaluation_metrics =
                         CalculateEvaluationMetrics(result.comparison,
                                                    result.transcription.confidence),
                     !.success = TRUE]
    /\ epc' = "finally"
    /\ UNCHANGED <<input, exc, attempts, outcome>>

\* lines 103-142: the except block
EvExcept ==
    /\ epc = "except"
    /\ UNCHANGED <<recVars, limit, fcall>>
    /\ result' =
          [error_message |-> exc.msg,
           success |-> FALSE,
           transcription |->
              IF result.transcription = NoDict
              THEN [transcript |-> NoneText, confidence |-> 0,
                    success |-> FALSE, error |-> exc.msg]
              ELSE result.transcription,
           comparison |->
              IF result.comparison = NoDict
              THEN [accuracy_score |-> 0, semantic_similarity |-> 0,
                    suggestions |-> <<"check the audio file", "check the network">>,
                    reasoning |-> exc.msg, success |-> FALSE, error |-> exc.msg]
              ELSE result.comparison,
           evaluation_metrics |->
              [accuracy_score |-> 0, semantic_similarity |-> 0,
               accuracy_level |-> "failed", confidence |-> 0,
               processing_status |-> "failed"]]
    /\ epc' = "finally"
    /\ UNCHANGED <<input, exc, attempts, outcome>>

\* lines 144-148: the finally block, then the return, or the exception that
\* the except clause did not catch goes on to the caller
EvFinally ==
    /\ epc = "finally"
    /\ UNCHANGED <<recVars, limit, fcall>>
    /\ outcome' = IF exc # NoExc /\ ~Catches(EvaluateCatches, exc)
                  THEN "raised" ELSE "returned"
    /\ epc' = "done"
    /\ UNCHANGED <<input, result, exc, attempts>>

(***************************************************************************)
(* Functions applied on their own                                          *)
(***************************************************************************)
NoCall == [fn |-> "", n |-> 0]

\* compare_text_accuracy from the response text on (llm.py 79-89):
\* _parse_comparison_response, and the except clause around it
ApplyParse ==
    /\ fcall.fn = "parse" /\ fcall.n = 0
    /\ fcall' = [fcall EXCEPT !.out = CompareWrap(ParseComparisonResponse(fcall.arg)),
                            !.n = 1]
    /\ UNCHANGED <<recVars, evalVars, limit>>

\* the thresholds validate_config accepts (config.py 130-133) and the scores
\* around them
ThresholdValues == {0, 50, 60, 75, 80, 90, 100}
LevelScores == {0, 49, 50, 59, 60, 74, 75, 79, 80, 89, 90, 99, 100}
LevelInputs ==
    {[a |-> a, b |-> b,
      cfg |-> [high_accuracy_threshold |-> h, min_similarity_threshold |-> m]] :
        a \in LevelScores, b \in LevelScores,
        h \in ThresholdValues, m \in ThresholdValues}

\* _calculate_evaluation_metrics (evaluation.py 157-165) under a configuration,
\* for two scores
ApplyLevel ==
    /\ fcall.fn = "level" /\ fcall.n = 0
    /\ LET th == GetEvaluationThresholds(fcall.arg.cfg) IN
       fcall' = [fcall EXCEPT !.out = [a |-> AccuracyLevel(fcall.arg.a, th),
                                       b |-> AccuracyLevel(fcall.arg.b, th)],
                              !.n = 1]
    /\ UNCHANGED <<recVars, evalVars, limit>>

\* the texts and the flags of EVALUATION_CONFIG (config.py 61-66) given to
\* normalize_text
Alphabet == {" ", "a", "A", ".", "FW."}
NormalizeInputs(longest) ==
    {[text |-> x, flags |-> [text_normalization |-> tn, punctuation_ignore |-> pi,
                            case_sensitive |-> cs]] :
        x \in UNION {[1..n -> Alphabet] : n \in 0..longest},
        tn \in BOOLEAN, pi \in BOOLEAN, cs \in BOOLEAN}

\* normalize_text applied to a text
ApplyNormalize ==
    /\ fcall.fn = "normalize" /\ fcall.n = 0
    /\ fcall' = [fcall EXCEPT
                    !.out = [once |-> NormalizeText(fcall.arg.text, fcall.arg.flags),
                             twice |-> <<>>],
                    !.n = 1]
    /\ UNCHANGED <<recVars, evalVars, limit>>

\* normalize_text applied to what it returned
ApplyNormalizeAgain ==
    /\ fcall.fn = "normalize" /\ fcall.n = 1
    /\ fcall' = [fcall EXCEPT
                    !.out.twice = NormalizeText(fcall.out.once, fcall.arg.flags),
                    !.n = 2]
    /\ UNCHANGED <<recVars, evalVars, limit>>

FnInit ==
    /\ RecInit /\ EvalIdle
    /\ limit = [calls |-> 0, frames |-> 0, serial |-> FALSE]
    /\ \/ \E p \in ParsePayloads :
             fcall = [fn |-> "parse", n |-> 0, arg |-> p, out |-> [e |-> NoExc]]
       \/ \E x \in LevelInputs :
             fcall = [fn |-> "level", n |-> 0, arg |-> x, out |-> [a |-> "", b |-> ""]]
       \/ \E x \in NormalizeInputs(MaxLen) :
             fcall = [fn |-> "normalize", n |-> 0, arg |-> x,
                      out |-> [once |-> <<>>, twice |-> <<>>]]

FnNext == ApplyParse \/ ApplyLevel \/ ApplyNormalize \/ ApplyNormalizeAgain

FnSpec == FnInit /\ [][FnNext]_vars

(***************************************************************************)
(* Specifications                                                          *)
(***************************************************************************)
Init ==
    /\ RecInit /\ EvalIdle /\ fcall = NoCall
    /\ limit = [calls |-> MaxCalls, frames |-> FewFrames, serial |-> FALSE]

Next ==
    \/ \E t \in Threads :
          \/ StartCall(t) \/ StPyAudio(t) \/ StOpen(t) \/ StClear(t)
          \/ StFlag(t) \/ StThread(t) \/ StExcept(t)
          \/ StopCall(t) \/ SpFlag(t) \/ SpJoin(t) \/ SpCheck(t)
          \/ SpEmpty(t) \/ SpSave(t) \/ SpCleanup(t) \/ SpExcept(t)
    \/ CaptureTest \/ CaptureCall \/ CaptureRead

Spec == Init /\ [][Next]_vars

EvalNext ==
    \/ EvTranscribe \/ EvCompare \/ EvCallApi \/ EvParse
    \/ EvMetrics \/ EvExcept \/ EvFinally

\* one call of evaluate_single_file, for every audio file and reference text
EvalStart ==
    /\ RecInit /\ EvalInit /\ fcall = NoCall
    /\ limit = [calls |-> 0, frames |-> 0, serial |-> FALSE]
EvalSpec == EvalStart /\ [][EvalNext]_vars

\* the same recorder, explored with fewer calls and more frames
FrameInit ==
    /\ RecInit /\ EvalIdle /\ fcall = NoCall
    /\ limit = [calls |-> FewCalls, frames |-> MaxFrames, serial |-> FALSE]
FrameSpec == FrameInit /\ [][Next]_vars

\* the recorder called by one request after the other
SeqInit ==
    /\ RecInit /\ EvalIdle /\ fcall = NoCall
    /\ limit = [calls |-> SeqCalls, frames |-> SeqFrames, serial |-> TRUE]
SeqSpec == SeqInit /\ [][Next]_vars

(***************************************************************************)
(* Properties of the recorder                                              *)
(***************************************************************************)
Others(t) == Threads \ {t}
AloneIn(t) == \A u \in Others(t) : pc[u] = "idle"

\* a stop_recording that found the recorder recording returns in this step
StopReturns(t) == pc[t] \in {"sp_empty", "sp_cleanup", "sp_except"} /\ pc'[t] = "idle"

\* the stop sequence is past its wait for the capture thread
PastWait(t) == pc[t] \in {"sp_check", "sp_empty", "sp_save", "sp_cleanup", "sp_except"}

\* C5: start_recording called while the recorder is recording returns False
\* and changes no field of the recorder: the flag, the buffer, the stream, the
\* device handle and the capture thread are as before the call.
C5_StartWhileRecordingRefused ==
    [][\A t \in Threads :
          (is_recording /\ StartCall(t))
              => /\ ret'.by = t /\ ret'.op = "start" /\ ret'.v = "False"
                 /\ pc'[t] = "idle"
                 /\ UNCHANGED recorderState]_vars

C5_Witness ==
    /\ ret.op = "start" /\ ret.v = "False"
    /\ ncalls = 2
    /\ is_recording
    /\ audio_data # <<>>
    /\ stream \in streamsOpen
    /\ record_thread # None /\ TaskAlive(record_thread)

\* C6: when a stop_recording that found the recorder recording returns (with
\* a path, with None on an empty buffer, or after an error while encoding or
\* releasing), the recorder is not recording and holds no stream and no
\* device handle.  Stated for a stop that no other call overlaps.
C6_StopReleasesHandles ==
    [][\A t \in Threads :
          (StopReturns(t) /\ AloneIn(t))
              => /\ ~is_recording'
                 /\ stream' = None /\ audio' = None]_vars

\* C7: whatever the interleaving of the request threads, at most one
\* start_recording returns True between two stops and at most one input
\* stream is open.
C7_SingleSession ==
    /\ startsWon <= 1
    /\ Cardinality(streamsOpen) <= 1

\* C8: when start_recording returns False because setup failed (no device,
\* stream not opened, capture thread not launched), the recorder is idle and
\* holds no stream and no device handle.  Stated for a start that no other
\* call overlaps.
C8_FailedStartLeavesIdle ==
    [][\A t \in Threads :
          (pc[t] = "st_except" /\ pc'[t] = "idle" /\ AloneIn(t))
              => /\ ~is_recording'
                 /\ stream' = None /\ audio' = None]_vars

\* C9: once a stop_recording is past its wait for the capture thread, no
\* capture thread appends a frame to the buffer: the buffer it reads for
\* encoding does not grow.  Stated for a stop that no other call overlaps.
C9_NoAppendAfterWait ==
    [][\A t \in Threads :
          (PastWait(t) /\ AloneIn(t)) => Len(audio_data') <= Len(audio_data)]_vars

\* C10 as stated: stop_recording returns a path exactly when it found the
\* recorder recording and the buffer non-empty.
C10_PathIffRecordingWithFrames ==
    [][\A t \in Threads :
          /\ StopReturns(t) => (ret'.v = "path" <=> loc[t].sawData)
          /\ (StopCall(t) /\ ~is_recording) => ret'.v = "None"]_vars

\* C10 amended: stop_recording returns a path exactly when it found the
\* recorder recording, the buffer was non-empty when it was read after the
\* wait, and the encoding succeeded; the file at that path then holds the
\* buffered frames in capture order.  Called while idle it returns None and
\* changes nothing; with an empty buffer it returns None and writes no file.
C10_StopResult ==
    [][\A t \in Threads :
          /\ StopReturns(t) =>
                /\ ret'.by = t /\ ret'.op = "stop"
                /\ ret'.v = "path" <=> (loc[t].sawData /\ loc[t].temp_file # 0)
                /\ ret'.v # "path" => ret'.v = "None"
                /\ ret'.v = "path" => ret'.path = loc[t].temp_file
                /\ files' = files
          /\ (pc[t] = "sp_save" /\ pc'[t] = "sp_cleanup") =>
                /\ files' = Append(files, audio_data)
                /\ loc'[t].temp_file = Len(files')
          /\ (pc[t] = "sp_save" /\ pc'[t] = "sp_except") => files' = files
          /\ (pc[t] = "sp_check" /\ pc'[t] # "sp_check") =>
                /\ files' = files
                /\ pc'[t] = (IF audio_data = <<>> THEN "sp_empty" ELSE "sp_save")
          /\ (StopCall(t) /\ ~is_recording) =>
                /\ ret'.by = t /\ ret'.op = "stop" /\ ret'.v = "None"
                /\ pc'[t] = "idle"
                /\ UNCHANGED recorderState]_vars

C10_Witness ==
    /\ ret.op = "stop" /\ ret.v = "path"
    /\ Len(files[ret.path]) = 2
    /\ files[ret.path][1].n < files[ret.path][2].n
    /\ files[ret.path] = audio_data

(***************************************************************************)
(* Properties of evaluate_single_file                                      *)
(***************************************************************************)
Done == epc = "done"

\* the speech-to-text backend was invoked and did not give a transcript
SttBackendFailed ==
    \/ input.stt.kind \in {"api_error", "io_error"}
    \/ input.stt.kind = "text" /\ Strip(input.stt.text) = <<>>

\* the speech-to-text backend gave a transcript
SttSucceeded == input.stt.kind = "text" /\ Strip(input.stt.text) # <<>>

\* the comparison backend gave a JSON object whose scores are numbers or absent
LlmSucceeded ==
    /\ input.llm.shape = "object"
    /\ input.llm.acc.t \in {"num", "missing", "nan"}
    /\ input.llm.sem.t \in {"num", "missing", "nan"}

PlaceholderComparison(c) ==
    /\ c.accuracy_score = 0
    /\ c.semantic_similarity = 0
    /\ c.suggestions # <<>>
    /\ ~c.success

\* C1: evaluate_single_file never lets an exception reach its caller: every
\* call returns a result, and a result made after a failure has success
\* False and error_message set.
C1_NeverRaises ==
    Done => /\ outcome = "returned"
            /\ exc # NoExc => (~result.success /\ result.error_message # "")

\* C2: when the speech-to-text backend fails, evaluate_single_file returns
\* success False, a transcription record with no transcript, confidence 0 and
\* its error set, the placeholder comparison (both scores 0, suggestions not
\* empty) and processing_status "failed".
C2_SttFailurePlaceholder ==
    (Done /\ SttBackendFailed) =>
        /\ outcome = "returned"
        /\ ~result.success
        /\ result.error_message # ""
        /\ result.transcription.transcript = NoneText
        /\ result.transcription.confidence = 0
        /\ ~result.transcription.success
        /\ result.transcription.error # ""
        /\ PlaceholderComparison(result.comparison)
        /\ result.evaluation_metrics.processing_status = "failed"

C2_Witness ==
    /\ Done /\ input.stt.kind = "api_error"
    /\ outcome = "returned" /\ ~result.success
    /\ result.transcription.transcript = NoneText

\* C3: when the transcription succeeds and the comparison fails,
\* evaluate_single_file returns success False with the placeholder comparison
\* (zero scores, the error message in reasoning) and the transcription record
\* of the successful transcription.
C3_CompareFailureKeepsTranscript ==
    (Done /\ SttSucceeded /\ exc.at = "compare") =>
        /\ outcome = "returned"
        /\ ~result.success
        /\ PlaceholderComparison(result.comparison)
        /\ result.comparison.reasoning = exc.msg
        /\ result.transcription.transcript = Strip(input.stt.text)
        /\ result.transcription.confidence = 1
        /\ result.transcription.success
        /\ result.transcription.error = ""

\* C4: for an audio file that passes the checks and a non-blank reference
\* text, when both backends succeed evaluate_single_file returns success
\* True, a non-empty transcript, both scores within 0..100 and
\* processing_status "completed".
C4_SuccessResult ==
    (/\ Done /\ BackendInvoked(input.file) /\ Strip(input.reference_text) # <<>>
     /\ SttSucceeded /\ LlmSucceeded) =>
        /\ outcome = "returned"
        /\ result.success
        /\ result.error_message = ""
        /\ result.transcription.transcript \notin {<<>>, NoneText}
        /\ result.comparison.accuracy_score \in 0..100
        /\ result.comparison.semantic_similarity \in 0..100
        /\ result.evaluation_metrics.accuracy_score \in 0..100
        /\ result.evaluation_metrics.semantic_similarity \in 0..100
        /\ result.evaluation_metrics.processing_status = "completed"

C4_Witness ==
    /\ Done /\ result.success
    /\ input.llm.acc = [t |-> "num", n |-> 150]
    /\ input.llm.sem = [t |-> "num", n |-> 0 - 10]
    /\ result.evaluation_metrics.accuracy_score = 100
    /\ result.evaluation_metrics.semantic_similarity = 0

\* what the comparison backend sent for a score against what the report holds
ClampedAs(field, stored) ==
    field.t = "num" =>
        /\ stored \in 0..100
        /\ field.n < 0 => stored = 0
        /\ field.n > 100 => stored = 100
        /\ field.n \in 0..100 => stored = field.n

\* the report compare_text_accuracy returned is in result.comparison
ReportReturned == result.comparison # NoDict /\ result.comparison.success

\* C11: for a numeric accuracy_score or semantic_similarity from the comparison
\* backend the report holds a value within 0..100: 0 for a value below 0, 100
\* for a value above 100, the value itself when it is in range.
C11_ScoresClamped ==
    ReportReturned =>
        /\ ClampedAs(input.llm.acc, result.comparison.accuracy_score)
        /\ ClampedAs(input.llm.sem, result.comparison.semantic_similarity)

C11_Witness ==
    /\ ReportReturned
    /\ input.llm.acc = [t |-> "num", n |-> 0 - 10]
    /\ result.comparison.accuracy_score = 0
    /\ input.llm.sem = [t |-> "num", n |-> 85]
    /\ result.comparison.semantic_similarity = 85

(***************************************************************************)
(* Properties of _parse_comparison_response                                *)
(***************************************************************************)
Parsed == fcall.fn = "parse" /\ fcall.n = 1

\* float() accepts the score, or the score is absent
Coercible(score) == score.t \in {"num", "missing", "nan"}

\* the response is a JSON object whose scores can be read
ObjectParsed ==
    /\ Parsed /\ fcall.arg.shape = "object"
    /\ Coercible(fcall.arg.acc) /\ Coercible(fcall.arg.sem)

Backfilled(sent, stored, default) ==
    stored = IF sent.t = "missing" THEN default ELSE sent

\* C12: every required field that the parsed payload lacks has its default in
\* the report and causes no failure (key_differences missing gives []), a
\* field that is present is kept, and an error_analysis that is no mapping is
\* replaced by the all-zero default.
C12_FieldBackfill ==
    ObjectParsed =>
        /\ fcall.out.e = NoExc
        /\ LET p == fcall.arg
               r == fcall.out.report
           IN /\ Backfilled(p.summary, r.summary, Val("analysis complete"))
              /\ Backfilled(p.key_differences, r.key_differences, Val(<<>>))
              /\ Backfilled(p.suggestions, r.suggestions, Val(<<>>))
              /\ Backfilled(p.reasoning, r.reasoning, Val(""))
              /\ p.acc.t = "missing" => r.accuracy_score = 0
              /\ p.sem.t = "missing" => r.semantic_similarity = 0
              /\ (p.acc.t = "num" /\ p.acc.n \in 0..100) => r.accuracy_score = p.acc.n
              /\ (p.sem.t = "num" /\ p.sem.n \in 0..100)
                    => r.semantic_similarity = p.sem.n
              /\ r.error_analysis =
                    IF p.error_analysis.t = "map" THEN p.error_analysis
                    ELSE [t |-> "map", m |-> DefaultCounts]

C12_Witness ==
    /\ ObjectParsed /\ fcall.out.e = NoExc
    /\ fcall.arg.key_differences.t = "missing"
    /\ fcall.out.report.key_differences = Val(<<>>)
    /\ fcall.arg.summary = Val("s") /\ fcall.out.report.summary = Val("s")
    /\ fcall.arg.error_analysis.t = "text"
    /\ fcall.out.report.error_analysis.m = DefaultCounts

NaturalCount(c) == c.t = "num" /\ c.n >= 0

\* C13: in every report compare returns, error_analysis has substitutions,
\* deletions, insertions and total_errors, each a non-negative integer,
\* whatever the backend sent.
C13_ErrorCountsNatural ==
    (Parsed /\ fcall.out.e = NoExc) =>
        LET ea == fcall.out.report.error_analysis
        IN /\ ea.t = "map"
           /\ NaturalCount(ea.m.substitutions)
           /\ NaturalCount(ea.m.deletions)
           /\ NaturalCount(ea.m.insertions)
           /\ NaturalCount(ea.m.total_errors)

(***************************************************************************)
(* Properties of the accuracy level                                        *)
(***************************************************************************)
Levelled == fcall.fn = "level" /\ fcall.n = 1
DefaultThresholds == fcall.arg.cfg = EvaluationConfig

\* C14: with H = high_accuracy_threshold and M = min_similarity_threshold a
\* score s is excellent if s >= H, else good if s >= max(75, M), else fair if
\* s >= M, else needs improvement; with H = 90 and M = 60, 90 is excellent,
\* the score just below is good, 60 is fair and the score just below is needs
\* improvement.
C14_LevelThresholdExact ==
    Levelled =>
        LET s == fcall.arg.a
            H == fcall.arg.cfg.high_accuracy_threshold
            M == fcall.arg.cfg.min_similarity_threshold
            G == IF M > 75 THEN M ELSE 75
        IN /\ fcall.out.a = "excellent" <=> s >= H
           /\ fcall.out.a = "good" <=> (s < H /\ s >= G)
           /\ fcall.out.a = "fair" <=> (s < H /\ s < G /\ s >= M)
           /\ fcall.out.a = "needs improvement" <=> (s < H /\ s < G /\ s < M)
           /\ DefaultThresholds =>
                 /\ s = 90 => fcall.out.a = "excellent"
                 /\ s = 89 => fcall.out.a = "good"
                 /\ s = 75 => fcall.out.a = "good"
                 /\ s = 74 => fcall.out.a = "fair"
                 /\ s = 60 => fcall.out.a = "fair"
                 /\ s = 59 => fcall.out.a = "needs improvement"

C14_Witness ==
    /\ Levelled /\ DefaultThresholds
    /\ fcall.arg.a = 90 /\ fcall.out.a = "excellent"
    /\ fcall.arg.b = 100

LevelRank(level) ==
    CASE level = "needs improvement" -> 0
      [] level = "fair" -> 1
      [] level = "good" -> 2
      [] level = "excellent" -> 3

\* C15: for every pair of thresholds in 0..100, also with the high accuracy
\* threshold below 75 or below the min similarity threshold, and all scores
\* a <= b, the level of b is the level of a or a better one.
C15_LevelMonotonic ==
    (Levelled /\ fcall.arg.a <= fcall.arg.b) =>
        LevelRank(fcall.out.a) <= LevelRank(fcall.out.b)

C15_Witness ==
    /\ Levelled
    /\ fcall.arg.cfg = [high_accuracy_threshold |-> 50, min_similarity_threshold |-> 60]
    /\ fcall.arg.a = 49 /\ fcall.out.a = "needs improvement"
    /\ fcall.arg.b = 50 /\ fcall.out.b = "excellent"

(***************************************************************************)
(* Properties of normalize_text                                            *)
(***************************************************************************)
\* C16: for every text and every setting of text_normalization,
\* punctuation_ignore and case_sensitive, normalizing the normalized text
\* gives the normalized text.
C16_NormalizeIdempotent ==
    (fcall.fn = "normalize" /\ fcall.n = 2) => fcall.out.twice = fcall.out.once

(***************************************************************************)
(* Properties of the comparison call                                       *)
(***************************************************************************)
\* this step is an invocation of the comparison backend that ends in an
\* API error
ApiErrorStep == epc = "api" /\ input'.llm = NoResponse
\* this step is an invocation that gets a response
ResponseStep == epc = "api" /\ input'.llm # NoResponse

RetriesExhausted ==
    Raise("RuntimeError", "AI analysis error: API call failed", "compare")

\* C17: one compare call invokes the comparison backend at most 3 times; an
\* API error on the first or second attempt is followed by one more attempt,
\* an API error on the third attempt ends the call with the wrapped failure,
\* and a response on any attempt ends the retrying and is the one parsed.
C17_BoundedRetry ==
    [][/\ attempts' <= 3
       /\ attempts' = IF epc = "api" THEN attempts + 1 ELSE attempts
       /\ (ApiErrorStep /\ attempts' <= 2) => (epc' = "api" /\ exc' = NoExc)
       /\ (ApiErrorStep /\ attempts' = 3) =>
             (exc' = RetriesExhausted /\ epc' = "except")
       /\ ResponseStep =>
             (input'.llm \in LlmResponses /\ epc' = "parse" /\ exc' = NoExc)
       /\ input.llm # NoResponse => (epc' # "api" /\ input'.llm = input.llm)
      ]_vars

C17_Witness ==
    /\ Done /\ attempts = 3 /\ result.success
    /\ input.llm.shape = "object"

(***************************************************************************)
(* Properties of transcribe_audio                                          *)
(***************************************************************************)
EmptyPathFailure == Raise("ValueError", "empty path", "stt")
NotFoundFailure == Raise("FileNotFoundError", "no such file", "stt")
TooLargeFailure ==
    Raise("RuntimeError", "speech recognition failed: file too large", "stt")
TooSmallFailure ==
    Raise("RuntimeError", "speech recognition failed: file too small", "stt")

\* C18: transcribe_audio rejects its input before the backend is invoked, each
\* precondition with a failure of its own, checked in the order empty path,
\* file does not exist, size above 25MB, size below 1KB; a file of exactly
\* 1KB or exactly 25MB passes and reaches the backend.
C18_PreconditionsInOrder ==
    [][epc = "transcribe" =>
         LET f == input.file
             rejected == input'.stt = NoAnswer
         IN /\ ~f.given => (exc' = EmptyPathFailure /\ rejected)
            /\ (f.given /\ ~f.exists) => (exc' = NotFoundFailure /\ rejected)
            /\ (f.given /\ f.exists /\ f.size > 25 * 1024 * 1024)
                  => (exc' = TooLargeFailure /\ rejected)
            /\ (f.given /\ f.exists /\ f.size < 1024)
                  => (exc' = TooSmallFailure /\ rejected)
            /\ (f.given /\ f.exists /\ f.size \in {1024, 25 * 1024 * 1024})
                  => input'.stt \in SttAnswers
            /\ Cardinality({EmptyPathFailure, NotFoundFailure, TooLargeFailure,
                            TooSmallFailure}) = 4
      ]_vars

C18_Witness ==
    /\ epc = "compare"
    /\ input.file = [given |-> TRUE, exists |-> TRUE, size |-> 1024]
    /\ input.stt.kind = "text"

ParseFailure ==
    Raise("RuntimeError", "AI analysis error: cannot parse the response", "compare")
Unparsable == input.llm.shape = "garbage"

\* C19: a response that cannot be parsed as JSON makes compare fail without
\* another invocation of the backend: the invocation that got the response
\* is the last one, and the failure raised differs from the failure raised
\* when the retries after API errors are exhausted.
C19_ParseFailureNotRetried ==
    [][/\ (epc = "parse" /\ Unparsable) =>
             /\ exc' = ParseFailure
             /\ exc' # RetriesExhausted
             /\ epc' = "except"
       /\ Unparsable => (attempts' = attempts /\ epc' # "api" /\ input' = input)
      ]_vars

C19_Witness ==
    /\ Done /\ Unparsable /\ attempts = 1
    /\ exc = ParseFailure /\ outcome = "returned"
    /\ result.error_message = ParseFailure.msg

(***************************************************************************)
(* Properties of the capture thread                                        *)
(***************************************************************************)
AliveTasks == {k \in 1..Len(tasks) : TaskAlive(k)}

\* C20: after any sequence of start_recording and stop_recording calls, also
\* a stop whose wait for the capture thread expired followed by a start, at
\* most one capture thread is running, every frame in the buffer was appended
\* by the capture thread of the current session, and no other capture thread
\* reads from the current stream.
C20_OneCaptureTask ==
    /\ Cardinality(AliveTasks) <= 1
    /\ \A i \in 1..Len(audio_data) : audio_data[i].by = record_thread
    /\ \A k \in 1..Len(tasks) :
          (tasks[k].pc = "read" /\ stream # None /\ tasks[k].s = stream)
             => k = record_thread
====
